---- MODULE Spec2Model ----
(***************************************************************************)
(* Model of the cloudify-cli command handlers                              *)
(*   cloudify_cli/commands/blueprints.py     (upload, list, get_archive_id)*)
(*   cloudify_cli/commands/node_instances.py (get, ls)                     *)
(*                                                                         *)
(* Python strings are sequences of one-character strings, so that          *)
(* os.path.basename / dirname / splitext, str.split and str.replace are    *)
(* computed character by character as the library computes them.          *)
(***************************************************************************)
EXTENDS Integers, Sequences, FiniteSets, TLC

VARIABLES
    archive_location,     \* argument of get_archive_id
    archive_id,           \* its return value (None before the call)
    manager_blueprints,   \* what client.blueprints.list() returns
    table,                \* the table printed by `list`: printed flag and rows
    ni,                   \* last node-instances command: arguments and outcome
    fs,                   \* directories that exist on disk
    tmpCount,             \* number of temporary directories created so far
    derived,              \* <<reference, base id>> pairs handed to generate_suffixed_id
    last                  \* record of the last `upload` invocation

vars == <<archive_location, archive_id, manager_blueprints, table, ni,
          fs, tmpCount, derived, last>>

\* Python's None; never equal to a character sequence.
None == <<"None">>

----------------------------------------------------------------------------
(* Bounds *)

MaxPathLen == 6
MaxDescLen == 22
MaxBlueprints == 2
MaxTmpDirs == 2

----------------------------------------------------------------------------
(* Program constants *)

SUPPORTED_ARCHIVE_TYPES ==
    { <<"z","i","p">>,
      <<"t","a","r">>,
      <<"t","a","r",".","g","z">>,
      <<"t","a","r",".","b","z","2">> }

DESCRIPTION_LIMIT == 20

----------------------------------------------------------------------------
(* Python string primitives *)

\* the last index i <= n with s[i] = c, 0 if there is none
RECURSIVE RFindFrom(_, _, _)
RFindFrom(s, c, n) ==
    IF n = 0 THEN 0
    ELSE IF s[n] = c THEN n
    ELSE RFindFrom(s, c, n - 1)

\* str.rfind(c) + 1: the 1-based index of the last occurrence of c, 0 if none
RFind(s, c) == RFindFrom(s, c, Len(s))

\* str.rstrip('/')
RECURSIVE RStripSlash(_)
RStripSlash(s) ==
    IF s # <<>> /\ s[Len(s)] = "/" THEN RStripSlash(SubSeq(s, 1, Len(s) - 1)) ELSE s

\* str.replace(a, b) for one-character a and b
Replace(s, a, b) == [i \in 1..Len(s) |-> IF s[i] = a THEN b ELSE s[i]]

\* str.split('/')[-1]
SplitLast(s) == SubSeq(s, RFind(s, "/") + 1, Len(s))

\* os.path.basename (posixpath)
basename(p) == SubSeq(p, RFind(p, "/") + 1, Len(p))

\* os.path.dirname (posixpath): the head up to the last slash, trailing
\* slashes stripped unless the head consists of slashes only
dirname(p) ==
    LET head == SubSeq(p, 1, RFind(p, "/"))
    IN  IF head # <<>> /\ (\E k \in 1..Len(head) : head[k] # "/")
        THEN RStripSlash(head)
        ELSE head

\* os.path.splitext (genericpath._splitext): split at the last dot of the last
\* path component, unless that component has only leading dots before it
splitext(p) ==
    LET sepIndex == RFind(p, "/")
        dotIndex == RFind(p, ".")
    IN  IF dotIndex > sepIndex
           /\ \E k \in (sepIndex + 1)..(dotIndex - 1) : p[k] # "."
        THEN <<SubSeq(p, 1, dotIndex - 1), SubSeq(p, dotIndex, Len(p))>>
        ELSE <<p, <<>>>>

----------------------------------------------------------------------------
(* blueprints.py: get_archive_id *)

\* Mutant: the hyphen replacement is applied to the whole result
get_archive_id_replace_all(location) ==
    LET filename == splitext(basename(location))[1]
        dir      == SplitLast(dirname(location))
    IN  Replace(dir \o <<"_">> \o filename, "-", "_")

get_archive_id(location) ==
    LET filename == splitext(basename(location))[1]
        dir      == SplitLast(dirname(location))
    IN  Replace(dir, "-", "_") \o <<"_">> \o filename

----------------------------------------------------------------------------
(* Inputs of get_archive_id *)

PathAlphabet == {"/", "-", ".", "a"}

MyRepoZip == <<"/","a","/","m","y","-","r","e","p","o","/","b","p",".","z","i","p">>

\* "/tmp/demo-blueprints/hello"
DemoHello == <<"/","t","m","p","/","d","e","m","o","-","b","l","u","e","p","r","i","n","t","s",
               "/","h","e","l","l","o">>

HelloArchives == { DemoHello \o <<".">> \o ext : ext \in SUPPORTED_ARCHIVE_TYPES }

Paths == (UNION { [1..n -> PathAlphabet] : n \in 0..MaxPathLen })
             \cup {MyRepoZip} \cup HelloArchives

GetArchiveIdInit ==
    /\ archive_location \in Paths
    /\ archive_id = None

\* a call get_archive_id(archive_location)
GetArchiveId ==
    /\ archive_id = None
    /\ archive_id' = get_archive_id(archive_location)
    /\ UNCHANGED archive_location

----------------------------------------------------------------------------
(* blueprints.py: list *)

\* Mutant: the comparison is > instead of >=
trim_description_gt(blueprint) ==
    IF blueprint.description # None
    THEN IF Len(blueprint.description) > DESCRIPTION_LIMIT
         THEN [blueprint EXCEPT !.description =
                   SubSeq(blueprint.description, 1, DESCRIPTION_LIMIT - 2) \o <<".", ".">>]
         ELSE blueprint
    ELSE [blueprint EXCEPT !.description = <<>>]

trim_description(blueprint) ==
    IF blueprint.description # None
    THEN IF Len(blueprint.description) >= DESCRIPTION_LIMIT
         THEN [blueprint EXCEPT !.description =
                   SubSeq(blueprint.description, 1, DESCRIPTION_LIMIT - 2) \o <<".", ".">>]
         ELSE blueprint
    ELSE [blueprint EXCEPT !.description = <<>>]

\* descriptions the manager may hold: None, or text of any length up to
\* MaxDescLen whose characters vary with the position
DescChars == <<"t", "u", "v", "w", "x", "y", "z">>
DescText(n) == [i \in 1..n |-> DescChars[(i % 7) + 1]]
Descriptions == {None} \cup { DescText(n) : n \in 0..MaxDescLen }

BlueprintRows == [id : {<<"b">>}, description : Descriptions]

NoTable == [printed |-> FALSE, rows |-> <<>>]

ListInit ==
    /\ manager_blueprints \in UNION { [1..n -> BlueprintRows] : n \in 0..MaxBlueprints }
    /\ table = NoTable

\* the `list` command: every row returned by the manager is trimmed and
\* handed to the table
list ==
    /\ ~table.printed
    /\ table' = [printed |-> TRUE,
                 rows |-> [i \in 1..Len(manager_blueprints) |->
                               trim_description(manager_blueprints[i])]]
    /\ UNCHANGED manager_blueprints

----------------------------------------------------------------------------
(* node_instances.py: get, ls *)

\* status codes a CloudifyClientError may carry; 0 stands for "no error"
StatusCodes == {400, 401, 403, 404, 409, 500}
ClientOutcomes == {0} \cup StatusCodes

Ids == { <<"a">>, <<"b">>, <<"c">> }
NodeNames == { None, <<"n">>, <<"m">> }

NiIdle == [cmd |-> "idle", arg |-> None, node_name |-> None, status_code |-> 0,
           raised |-> "none", message |-> "", printed |-> FALSE]

\* get: lines 46-51, the try/except around client.node_instances.get
get_raised(status_code) ==
    IF status_code = 0 THEN "none"
    ELSE IF status_code # 404 THEN "CloudifyClientError"
    ELSE "CloudifyCliError"

\* ls: lines 77-89, the try/except around client.node_instances.list
ls_raised(status_code) ==
    IF status_code = 0 THEN "none"
    ELSE IF ~(status_code # 404) THEN "CloudifyClientError"
    ELSE "CloudifyCliError"

get ==
    \E node_instance_id \in Ids, status_code \in ClientOutcomes :
        LET r == get_raised(status_code)
        IN  ni' = [cmd |-> "get", arg |-> node_instance_id, node_name |-> None,
                   status_code |-> status_code,
                   raised |-> r,
                   message |-> IF r = "CloudifyCliError"
                               THEN "Node instance {0} not found" ELSE "",
                   printed |-> (r = "none")]

ls ==
    \E deployment_id \in Ids \cup {<<>>}, node_name \in NodeNames,
       status_code \in ClientOutcomes :
        LET r == ls_raised(status_code)
        IN  ni' = [cmd |-> "ls", arg |-> deployment_id, node_name |-> node_name,
                   status_code |-> status_code,
                   raised |-> r,
                   message |-> IF r = "CloudifyCliError"
                               THEN "Deployment {0} does not exist" ELSE "",
                   printed |-> (r = "none")]

NodeInstancesInit == ni = NiIdle

----------------------------------------------------------------------------
(* blueprints.py: upload and its collaborators *)

\* the references the user may pass as BLUEPRINT_PATH
LocalYaml == <<"/","u","/","m","y","-","b","p","/","b","p",".","y","a","m","l">>
RemoteUrl == <<"h","t","t","p",":","/","/","h","/","d","-","e","/","b",".","t","a","r">>
Shorthand == <<"o","r","g","/","r","e","p","o">>

References == {LocalYaml, MyRepoZip, RemoteUrl, Shorthand}

\* --blueprint-id: absent, empty or given
BlueprintIds == {None, <<>>, <<"m","y","-","i","d">>}

\* --blueprint-filename: absent, so that the default name is used
DefaultFilename == <<"b","l","u","e","p","r","i","n","t",".","y","a","m","l">>
BlueprintFilenames == {None}

\* the random part generate_suffixed_id appends
Suffixes == { <<"0">>, <<"1">> }

\* truth value of a Python object that is None or a string
Truthy(x) == x # None /\ x # <<>>

EndsWith(s, t) ==
    Len(t) <= Len(s) /\ SubSeq(s, Len(s) - Len(t) + 1, Len(s)) = t

\* the reference names an archive of a supported kind
IsArchive(ref) == \E ext \in SUPPORTED_ARCHIVE_TYPES : EndsWith(ref, <<".">> \o ext)

\* the reference is a definition file on the local disk
IsLocalFile(ref) ==
    ~IsArchive(ref) /\ (EndsWith(ref, <<".","y","a","m","l">>) \/ EndsWith(ref, <<".","y","m","l">>))

Digits == <<"1", "2", "3", "4", "5", "6", "7", "8", "9">>

\* the n-th temporary directory: "/tmp/t<n>"
TmpDir(n) == <<"/","t","m","p","/","t">> \o <<Digits[n]>>

\* common.get_blueprint: the path of the definition file; the reference itself
\* for a local definition file, otherwise the file of that name at the root of
\* a fresh temporary directory holding the extracted archive
get_blueprint(ref, filename, n) ==
    IF IsLocalFile(ref) THEN ref ELSE TmpDir(n) \o <<"/">> \o filename

\* utils.generate_suffixed_id: the id, an underscore and a random suffix
generate_suffixed_id(id, suffix) == id \o <<"_">> \o suffix

\* shutil.rmtree(dir): dir and everything below it is gone
rmtree(dirs, dir) ==
    { d \in dirs : ~(d = dir \/ (Len(d) > Len(dir) /\ SubSeq(d, 1, Len(dir) + 1) = dir \o <<"/">>)) }

\* Mutant: a failed parse is logged and swallowed
validate_blueprint_swallow(blueprint_path, parseOk) ==
    [calls |-> <<"parse_from_path">>,
     parse |-> IF parseOk THEN "ok" ELSE "DSLParsingException",
     error |-> "none"]

\* validate_blueprint: the parser is run on the file; its DSLParsingException
\* is re-raised as CloudifyCliError
validate_blueprint(blueprint_path, parseOk) ==
    [calls |-> <<"parse_from_path">>,
     parse |-> IF parseOk THEN "ok" ELSE "DSLParsingException",
     error |-> IF parseOk THEN "none" ELSE "CloudifyCliError"]

\* Mutant: the id is always derived from the path
upload_id_always_derived(new_path, blueprint_id, suffix) ==
    [base |-> get_archive_id(new_path),
     id |-> generate_suffixed_id(get_archive_id(new_path), suffix),
     calls |-> <<"generate_suffixed_id">>]

\* upload, lines 99-100: blueprint_id or generate_suffixed_id(get_archive_id(new_path))
upload_id(new_path, blueprint_id, suffix) ==
    IF Truthy(blueprint_id)
    THEN [base |-> None, id |-> blueprint_id, calls |-> <<>>]
    ELSE [base |-> get_archive_id(new_path),
          id |-> generate_suffixed_id(get_archive_id(new_path), suffix),
          calls |-> <<"generate_suffixed_id">>]

\* upload, lines 97-105: the body of the try statement
upload_try(new_path, blueprint_id, validate, parseOk, uploadOk, suffix) ==
    LET v == IF validate THEN validate_blueprint(new_path, parseOk)
             ELSE [calls |-> <<>>, parse |-> "not run", error |-> "none"]
    IN  IF v.error # "none"
        THEN [calls |-> v.calls, parse |-> v.parse, base_id |-> None, sent_id |-> None,
              error |-> v.error]
        ELSE LET d == upload_id(new_path, blueprint_id, suffix)
             IN  [calls |-> v.calls \o d.calls \o <<"blueprints.upload">>,
                  parse |-> v.parse,
                  base_id |-> d.base,
                  sent_id |-> d.id,
                  error |-> IF uploadOk THEN "none" ELSE "CloudifyClientError"]

\* Mutant: the cleanup runs after a successful upload only
upload_finally_on_success(new_path, blueprint_path, error, dirs) ==
    IF new_path # blueprint_path /\ error = "none"
    THEN rmtree(dirs, dirname(new_path))
    ELSE dirs

\* Mutant: the cleanup does not compare the two paths
upload_finally_always(new_path, blueprint_path, error, dirs) ==
    rmtree(dirs, dirname(new_path))

\* upload, lines 106-111: the finally clause
upload_finally(new_path, blueprint_path, error, dirs) ==
    IF new_path # blueprint_path
    THEN rmtree(dirs, dirname(new_path))
    ELSE dirs

\* directories of the user's own files
UserDirs == { dirname(r) : r \in {LocalYaml, MyRepoZip} }

NoUpload == [blueprint_path |-> None, blueprint_id |-> None, validate |-> FALSE,
             new_path |-> None, calls |-> <<>>, parse |-> "not run", base_id |-> None,
             sent_id |-> None, error |-> "none", removed |-> {}]

UploadInit ==
    /\ fs = UserDirs
    /\ tmpCount = 0
    /\ derived = {}
    /\ last = NoUpload

\* upload whose resolution fails: get_blueprint raises before the try
\* statement is entered; an archive that was already extracted stays on disk
uploadUnresolved ==
    \E blueprint_path \in References, blueprint_id \in BlueprintIds,
       validate \in BOOLEAN, extracted \in BOOLEAN :
        /\ extracted => (~IsLocalFile(blueprint_path) /\ tmpCount < MaxTmpDirs)
        /\ tmpCount' = IF extracted THEN tmpCount + 1 ELSE tmpCount
        /\ fs' = IF extracted THEN fs \cup {TmpDir(tmpCount + 1)} ELSE fs
        /\ last' = [NoUpload EXCEPT !.blueprint_path = blueprint_path,
                                    !.blueprint_id = blueprint_id,
                                    !.validate = validate,
                                    !.calls = <<"get_blueprint">>,
                                    !.error = "SourceNotFoundError"]
        /\ UNCHANGED derived

\* upload, lines 88-111, once get_blueprint has returned
upload ==
    \E blueprint_path \in References, blueprint_id \in BlueprintIds,
       blueprint_filename \in BlueprintFilenames, validate \in BOOLEAN :
    \* the outcome of a collaborator is drawn only where it is called
    \E parseOk \in (IF validate THEN BOOLEAN ELSE {TRUE}) :
    \E uploadOk \in (IF parseOk THEN BOOLEAN ELSE {TRUE}) :
    \E suffix \in (IF parseOk /\ ~Truthy(blueprint_id) THEN Suffixes ELSE {<<"0">>}) :
        LET filename == IF Truthy(blueprint_filename) THEN blueprint_filename
                        ELSE DefaultFilename
        IN  \E temporary \in {~IsLocalFile(blueprint_path)} :
            LET n       == IF temporary THEN tmpCount + 1 ELSE tmpCount
                created == IF temporary THEN fs \cup {TmpDir(n)} ELSE fs
            IN
            /\ temporary => tmpCount < MaxTmpDirs
            /\ \E new_path \in {get_blueprint(blueprint_path, filename, n)} :
               \E t \in {upload_try(new_path, blueprint_id, validate, parseOk, uploadOk, suffix)} :
               \E after \in {upload_finally(new_path, blueprint_path, t.error, created)} :
                /\ tmpCount' = n
                /\ fs' = after
                /\ derived' = IF t.base_id # None
                              THEN derived \cup {<<blueprint_path, t.base_id>>}
                              ELSE derived
                /\ last' = [blueprint_path |-> blueprint_path,
                            blueprint_id |-> blueprint_id,
                            validate |-> validate,
                            new_path |-> new_path,
                            calls |-> <<"get_blueprint">> \o t.calls
                                      \o (IF after # created THEN <<"rmtree">> ELSE <<>>),
                            parse |-> t.parse,
                            base_id |-> t.base_id,
                            sent_id |-> t.sent_id,
                            error |-> t.error,
                            removed |-> created \ after]

----------------------------------------------------------------------------
(* Specifications *)

IdleArchiveId == archive_location = <<>> /\ archive_id = None
IdleList == manager_blueprints = <<>> /\ table = NoTable
IdleUpload == UploadInit

\* the blueprints upload command
Init == IdleArchiveId /\ IdleList /\ NodeInstancesInit /\ UploadInit
Next ==
    \/ upload /\ UNCHANGED <<archive_location, archive_id, manager_blueprints, table, ni>>
    \/ uploadUnresolved /\ UNCHANGED <<archive_location, archive_id, manager_blueprints, table, ni>>
Spec == Init /\ [][Next]_vars

\* get_archive_id on every path of the bounded set
InitArchiveId == GetArchiveIdInit /\ IdleList /\ NodeInstancesInit /\ IdleUpload
NextArchiveId ==
    GetArchiveId /\ UNCHANGED <<manager_blueprints, table, ni, fs, tmpCount, derived, last>>
SpecArchiveId == InitArchiveId /\ [][NextArchiveId]_vars

\* the blueprints list command
InitList == IdleArchiveId /\ ListInit /\ NodeInstancesInit /\ IdleUpload
NextList ==
    list /\ UNCHANGED <<archive_location, archive_id, ni, fs, tmpCount, derived, last>>
SpecList == InitList /\ [][NextList]_vars

\* the node-instances get and ls commands
InitNodeInstances == IdleArchiveId /\ IdleList /\ NodeInstancesInit /\ IdleUpload
NextNodeInstances ==
    \/ get /\ UNCHANGED <<archive_location, archive_id, manager_blueprints, table,
                          fs, tmpCount, derived, last>>
    \/ ls /\ UNCHANGED <<archive_location, archive_id, manager_blueprints, table,
                         fs, tmpCount, derived, last>>
SpecNodeInstances == InitNodeInstances /\ [][NextNodeInstances]_vars

----------------------------------------------------------------------------
(* Properties of upload, checked under Spec *)

\* the last upload got past resolution
Resolved == last.new_path # None

\* the last upload was handed a path inside a temporary directory
Temporary == Resolved /\ last.new_path # last.blueprint_path

\* position of a call in the call trace of the last upload, 0 if absent
CallIndex(name) ==
    IF \E i \in 1..Len(last.calls) : last.calls[i] = name
    THEN CHOOSE i \in 1..Len(last.calls) : last.calls[i] = name
    ELSE 0

\* C1: whenever the resolver returned a path inside a temporary directory, that
\* directory is gone when upload ends, whether the upload succeeded, the
\* validation failed or the manager's upload call failed.
C1_TempDirRemoved ==
    Temporary =>
        /\ TmpDir(tmpCount) \notin fs
        /\ TmpDir(tmpCount) \in last.removed
        /\ \A d \in fs : ~(Len(d) < Len(last.new_path)
                           /\ SubSeq(last.new_path, 1, Len(d) + 1) = d \o <<"/">>)

\* an upload from a temporary directory whose manager call failed, cleaned up
C1_Witness ==
    /\ Temporary
    /\ last.error = "CloudifyClientError"
    /\ last.removed = {TmpDir(tmpCount)}

\* an upload from a temporary directory whose validation failed, cleaned up
C1_WitnessValidation ==
    /\ Temporary
    /\ last.error = "CloudifyCliError"
    /\ last.removed = {TmpDir(tmpCount)}

\* C2: for an archive reference and no blueprint id, the base of the derived id
\* is the archive identity of the reference the user gave, not of the path
\* inside the temporary directory.
C2_DerivedFromOriginalLocation ==
    (Temporary /\ last.base_id # None) =>
        last.base_id = get_archive_id(last.blueprint_path)

\* C5: two uploads of the same reference without a blueprint id hand the same
\* base identifier to the suffix generator.
C5_SameReferenceSameBase ==
    \A p \in derived, q \in derived : p[1] = q[1] => p[2] = q[2]

\* C6: a blueprint id supplied by the user (a non-empty value of the option; an
\* absent or empty option is no id) is passed unchanged to the manager's upload
\* call and no id is derived; an id is derived only when none is supplied.
C6_UserIdPassedUnchanged ==
    /\ (Truthy(last.blueprint_id) /\ CallIndex("blueprints.upload") # 0) =>
           /\ last.sent_id = last.blueprint_id
           /\ last.base_id = None
           /\ CallIndex("generate_suffixed_id") = 0
    /\ (last.base_id # None \/ CallIndex("generate_suffixed_id") # 0) =>
           ~Truthy(last.blueprint_id)
    /\ (~Truthy(last.blueprint_id) /\ CallIndex("blueprints.upload") # 0) =>
           \E suffix \in Suffixes : last.sent_id = last.base_id \o <<"_">> \o suffix

\* an upload of an archive with the user's id reached the manager
C6_Witness ==
    /\ Temporary
    /\ last.blueprint_id = <<"m","y","-","i","d">>
    /\ last.sent_id = <<"m","y","-","i","d">>
    /\ CallIndex("blueprints.upload") # 0

\* C7: for a local definition file (the resolver returned the user's path)
\* upload deletes no directory, whatever its outcome, and the directories of the
\* user's files exist as before.
C7_LocalFileNothingDeleted ==
    (Resolved /\ last.new_path = last.blueprint_path) =>
        /\ last.removed = {}
        /\ CallIndex("rmtree") = 0
        /\ UserDirs \subseteq fs

\* an upload of a local definition file whose manager call failed
C7_Witness ==
    /\ Resolved
    /\ last.new_path = last.blueprint_path
    /\ last.blueprint_path = LocalYaml
    /\ last.error = "CloudifyClientError"

\* C8: with validation requested the parser runs before the manager's upload
\* call, a parser failure surfaces as CloudifyCliError and the upload call is
\* not made; without validation requested the parser is not run.
C8_ValidationBeforeUpload ==
    Resolved =>
        /\ last.validate =>
               /\ CallIndex("parse_from_path") # 0
               /\ CallIndex("blueprints.upload") # 0 =>
                      CallIndex("parse_from_path") < CallIndex("blueprints.upload")
        /\ last.parse = "DSLParsingException" =>
               /\ last.error = "CloudifyCliError"
               /\ CallIndex("blueprints.upload") = 0
        /\ ~last.validate =>
               /\ CallIndex("parse_from_path") = 0
               /\ last.parse = "not run"

\* an upload whose validation failed
C8_Witness ==
    /\ Resolved
    /\ last.validate
    /\ last.parse = "DSLParsingException"
    /\ last.calls = <<"get_blueprint", "parse_from_path", "rmtree">>

----------------------------------------------------------------------------
(* Properties of get_archive_id, checked under SpecArchiveId *)

\* C3: for a path "<...>/<dir>/<stem>.<ext>" the id is <dir> with every hyphen
\* replaced by an underscore, an underscore, and <stem> as it is;
\* get_archive_id("/a/my-repo/bp.zip") is "my_repo_bp".
C3_ArchiveIdShape ==
    archive_id # None =>
        LET p == archive_location
        IN  /\ \A k \in 0..Len(p), i \in 1..Len(p), j \in 1..Len(p) :
                   ( /\ k + 1 < i /\ i + 1 < j /\ j < Len(p)
                     /\ (k = 0 \/ p[k] = "/")
                     /\ p[i] = "/"
                     /\ p[j] = "."
                     /\ \A m \in (k + 1)..(i - 1) : p[m] # "/"
                     /\ \A m \in (i + 1)..Len(p) : p[m] # "/" /\ (m # j => p[m] # ".") )
                   =>
                   LET dir  == SubSeq(p, k + 1, i - 1)
                       stem == SubSeq(p, i + 1, j - 1)
                   IN  /\ Len(archive_id) = Len(dir) + 1 + Len(stem)
                       /\ \A m \in 1..Len(dir) :
                              archive_id[m] = IF dir[m] = "-" THEN "_" ELSE dir[m]
                       /\ archive_id[Len(dir) + 1] = "_"
                       /\ \A m \in 1..Len(stem) : archive_id[Len(dir) + 1 + m] = stem[m]
            /\ p = MyRepoZip => archive_id = <<"m","y","_","r","e","p","o","_","b","p">>

\* get_archive_id("-/-.a") = "__-": the hyphen of the directory is replaced, the
\* hyphen of the stem is kept
C3_Witness ==
    /\ archive_location = <<"-", "/", "-", ".", "a">>
    /\ archive_id = <<"_", "_", "-">>

\* C4: for every supported archive kind the whole archive extension is
\* stripped: the identity of "/tmp/demo-blueprints/hello.<kind>" is
\* "demo_blueprints_hello".
C4_WholeExtensionStripped ==
    (archive_id # None /\ archive_location \in HelloArchives) =>
        archive_id = <<"d","e","m","o","_","b","l","u","e","p","r","i","n","t","s",
                       "_","h","e","l","l","o">>

----------------------------------------------------------------------------
(* Properties of list, checked under SpecList *)

\* C9: every displayed description has at most 20 characters: a missing one is
\* shown as the empty string, one shorter than 20 characters unchanged, one of
\* 20 or more characters as its first 18 characters followed by "..".
C9_DescriptionTrimmed ==
    table.printed =>
        /\ Len(table.rows) = Len(manager_blueprints)
        /\ \A i \in 1..Len(table.rows) :
               LET d == manager_blueprints[i].description
                   shown == table.rows[i].description
               IN  /\ Len(shown) <= 20
                   /\ d = None => shown = <<>>
                   /\ (d # None /\ Len(d) < 20) => shown = d
                   /\ (d # None /\ Len(d) >= 20) =>
                          /\ Len(shown) = 20
                          /\ \A m \in 1..18 : shown[m] = d[m]
                          /\ shown[19] = "." /\ shown[20] = "."

\* a listing with a description of exactly 20 characters and a missing one
C9_Witness ==
    /\ table.printed
    /\ Len(table.rows) = 2
    /\ manager_blueprints[1].description # None
    /\ Len(manager_blueprints[1].description) = 20
    /\ table.rows[1].description[19] = "."
    /\ manager_blueprints[2].description = None
    /\ table.rows[2].description = <<>>

----------------------------------------------------------------------------
(* Properties of node-instances get and ls, checked under SpecNodeInstances *)

\* C10: get and ls treat a client error alike: status code 404 becomes a
\* CloudifyCliError, any other status code is re-raised as the original
\* CloudifyClientError.
C10_SameErrorTreatment ==
    (ni.cmd \in {"get", "ls"} /\ ni.status_code # 0) =>
        /\ ni.status_code = 404 => ni.raised = "CloudifyCliError"
        /\ ni.status_code # 404 => ni.raised = "CloudifyClientError"

====
